---- MODULE Spec2Model ----
(***************************************************************************)
(* mqttnotifier: one thread receives MQTT messages, resolves a per-topic   *)
(* format, renders title and body and hands them to the D-Bus notification *)
(* service, reconnecting with a growing back-off when the service is gone. *)
(* The model follows src/mqttnotifier.py: Notifier.on_message,             *)
(* Notifier.find_format, Notifier.notify, Notifier.start and main.         *)
(***************************************************************************)
EXTENDS Integers, Sequences, FiniteSets, TLC

VARIABLES
    test,       \* options.test
    daemon,     \* options.daemon
    topics,     \* options.topics: the registry, a dict in insertion order
    conf,       \* toml.load(options.config): the entries of the configuration file
    topics_list, \* options.topics_list: the --topic flags in the order given
    pc,         \* where the single thread is: main, start, loop, notify, connect_dbus, exit
    session,    \* number of Notifier objects main has constructed
    client,     \* self.client: none, connected, stopped
    back_off,   \* self.back_off, a rational number of seconds
    bus,        \* generation of self.bus / self.notify_interface (connect_dbus calls)
    arrived,    \* the messages the broker has sent, in arrival order
    head,       \* position in arrived of the next message the loop hands to on_message
    status,     \* per arrived message: queued, processing, delivered, dropped, failed, logged, lost
    last,       \* the locals of the latest on_message call
    attempts,   \* Notify calls made by the latest notify call
    sent,       \* arguments and outcome of the latest Notify call
    exc,        \* the latest D-Bus exception raised to notify
    lastLog,    \* the latest warning or error record written to the log
    slept,      \* argument of the latest time.sleep
    fails,      \* reconnect sleeps since the Notifier was fresh or last delivered
    budget      \* service-unavailable answers the environment may still give

vars == <<test, daemon, topics, conf, topics_list, pc, session, client, back_off, bus, arrived, head,
          status, last, attempts, sent, exc, lastLog, slept, fails, budget>>

----------------------------------------------------------------------------
(* Bounds of the model. *)
MaxMessages == 2
MaxFails == 4
MaxFailsLong == 17
MaxSessions == 2

----------------------------------------------------------------------------
(* Rational numbers n/d, d a power of two: the floats the code computes    *)
(* (1.5^k below 300) are exactly these.                                    *)
Rat(n, d) == [n |-> n, d |-> d]
RatLeq(a, b) == a.n * b.d <= b.n * a.d
RatMin(a, b) == IF RatLeq(a, b) THEN a ELSE b
RatTimes(a, b) == Rat(a.n * b.n, a.d * b.d)

BACK_OFF == Rat(0, 1)
BACK_OFF_PROGRESSION == Rat(3, 2)
BACK_OFF_CUTOFF == 300
NOTIFICATION_DURATION == 15

----------------------------------------------------------------------------
(* Templates: a sequence of parts, literal text, {{name}} or a syntax error *)
Lit(s) == [k |-> "lit", v |-> s]
Var(s) == [k |-> "var", v |-> s]
Bad == [k |-> "bad", v |-> "{{"]

DEFAULT_FORMAT == ("title" :> <<Var("title")>>) @@ ("body" :> <<Var("body")>>)

----------------------------------------------------------------------------
(* Topics and topic filters are sequences of levels.                       *)
RECURSIVE Join(_)
Join(levels) ==
    IF Len(levels) = 0 THEN ""
    ELSE IF Len(levels) = 1 THEN levels[1]
    ELSE levels[1] \o "/" \o Join(Tail(levels))

(* paho's topic_matches_sub, level by level: + takes exactly one level, #  *)
(* takes the rest (also no level at all), anything else must be equal; a   *)
(* filter that starts with a wildcard does not match a $-topic.            *)
SysLevels == {"$SYS"}

RECURSIVE MatchLevels(_, _)
MatchLevels(sub, topic) ==
    IF Len(sub) = 0 THEN Len(topic) = 0
    ELSE IF Head(sub) = "#" THEN Len(sub) = 1
    ELSE IF Len(topic) = 0 THEN FALSE
    ELSE /\ (Head(sub) = "+" \/ Head(sub) = Head(topic))
         /\ MatchLevels(Tail(sub), Tail(topic))

topic_matches_sub(sub, topic) ==
    /\ Len(sub) > 0
    /\ Len(topic) > 0
    /\ ~(Head(sub) \in {"+", "#"} /\ Head(topic) \in SysLevels)
    /\ MatchLevels(sub, topic)

(* find_format: the entry of the first key of self.topics, in insertion    *)
(* order, that matches; KeyError when none does.                           *)
EmptyFmt == [key \in {} |-> <<>>]

KeyError == [found |-> FALSE, fmt |-> EmptyFmt]

RECURSIVE FindFrom(_, _, _)
FindFrom(reg, i, topic) ==
    IF i > Len(reg) THEN KeyError
    ELSE IF topic_matches_sub(reg[i].pattern, topic)
         THEN [found |-> TRUE, fmt |-> reg[i].fmt]
         ELSE FindFrom(reg, i + 1, topic)

RECURSIVE FindLastFrom(_, _, _)
FindLastFrom(reg, i, topic) ==
    IF i < 1 THEN KeyError
    ELSE IF topic_matches_sub(reg[i].pattern, topic)
         THEN [found |-> TRUE, fmt |-> reg[i].fmt]
         ELSE FindLastFrom(reg, i - 1, topic)

find_format_last(reg, topic) == FindLastFrom(reg, Len(reg), topic)

find_format(reg, topic) == FindFrom(reg, 1, topic)

(* DEFAULT_FORMAT | fmt: the keys of fmt win, the others come from the default *)
MergeDefaultWins(default, fmt) == default @@ fmt

Merge(default, fmt) == fmt @@ default

----------------------------------------------------------------------------
(* json.loads and str() on the payloads of the model.                      *)
PayloadMessage == "{\"message\":\"21C\"}"
PayloadTitle == "{\"title\":\"Door\"}"
PayloadText == "not json"
PayloadNumber == "42"
PayloadBoth == "{\"title\":\"Door\",\"message\":\"open\"}"

JsonLoads(p) ==
    CASE p = PayloadMessage -> [kind |-> "dict", d |-> ("message" :> "21C")]
      [] p = PayloadTitle -> [kind |-> "dict", d |-> ("title" :> "Door")]
      [] p = PayloadBoth ->
            [kind |-> "dict", d |-> ("title" :> "Door") @@ ("message" :> "open")]
      [] p = PayloadNumber -> [kind |-> "int", d |-> ("value" :> "42")]
      [] OTHER -> [kind |-> "JSONDecodeError", d |-> ("value" :> "")]

PyStr(p) ==
    CASE p = PayloadMessage -> "{'message': '21C'}"
      [] p = PayloadTitle -> "{'title': 'Door'}"
      [] p = PayloadBoth -> "{'title': 'Door', 'message': 'open'}"
      [] OTHER -> p

DictGet(d, key, default) == IF key \in DOMAIN d THEN d[key] ELSE default

(* on_message, lines 155-165: title and body candidates of a payload *)
ParseBodyKey(topic, payload) ==
    LET data == JsonLoads(payload) IN
    IF data.kind = "dict"
    THEN [title |-> DictGet(data.d, "title", topic),
          body |-> DictGet(data.d, "body", PyStr(payload))]
    ELSE [title |-> topic, body |-> payload]

Parse(topic, payload) ==
    LET data == JsonLoads(payload) IN
    IF data.kind = "dict"
    THEN [title |-> DictGet(data.d, "title", topic),
          body |-> DictGet(data.d, "message", PyStr(payload))]
    ELSE [title |-> topic, body |-> payload]

(* jinja2.Template(t).render(...): literals kept, {{name}} replaced by   *)
(* the variable, an undefined name by the empty string; a template with a  *)
(* syntax error raises TemplateSyntaxError.                                *)
Raises(tpl) == \E i \in 1..Len(tpl) : tpl[i].k = "bad"

RECURSIVE RenderLiteral(_, _)
RenderLiteral(tpl, variables) ==
    IF Len(tpl) = 0 THEN ""
    ELSE LET p == Head(tpl)
             piece == IF p.k = "lit" THEN p.v ELSE "{{" \o p.v \o "}}"
         IN piece \o RenderLiteral(Tail(tpl), variables)

RECURSIVE Render(_, _)
Render(tpl, variables) ==
    IF Len(tpl) = 0 THEN ""
    ELSE LET p == Head(tpl)
             piece == IF p.k = "lit" THEN p.v
                      ELSE IF p.v \in DOMAIN variables THEN variables[p.v]
                      ELSE ""
         IN piece \o Render(Tail(tpl), variables)

----------------------------------------------------------------------------
(* The configurations and the inbound messages of the model.               *)
Entry(pattern, fmt) == [pattern |-> pattern, fmt |-> fmt]

RegFirst ==
    << Entry(<<"sensors", "+">>, ("title" :> <<Lit("Temp: "), Var("topic")>>)),
       Entry(<<"sensors", "temp">>, ("title" :> <<Lit("exact")>>) @@ ("body" :> <<Lit("exact")>>)),
       Entry(<<"alerts", "#">>, ("urgency" :> "critical") @@ ("muted" :> FALSE)) >>

RegMuted ==
    << Entry(<<"alerts", "#">>, ("muted" :> TRUE) @@ ("title" :> <<Lit("Alert")>>)),
       Entry(<<"#">>, EmptyFmt) >>

RegBad ==
    << Entry(<<"alerts", "critical">>, ("title" :> <<Lit("Alert "), Bad>>)),
       Entry(<<"+", "+">>, ("body" :> <<Var("body"), Lit(" ["), Var("nosuch"), Lit("]")>>)) >>

Registries == {RegFirst, RegMuted, RegBad}

(* A --topic flag: the pattern and the templates given after it *)
Flag(pattern, args) == [pattern |-> pattern, args |-> args]

(* main, line 212: dict(zip(["body","title"], t[1:])) *)
FlagFmt(args) ==
    IF Len(args) = 0 THEN EmptyFmt
    ELSE IF Len(args) = 1 THEN ("body" :> args[1])
    ELSE ("body" :> args[1]) @@ ("title" :> args[2])

(* d[key] = value on a dict: a key the dict holds keeps its place and gets *)
(* the new value, a new key goes to the end.                               *)
AppendItem(reg, pattern, fmt) == Append(reg, Entry(pattern, fmt))

SetItem(reg, pattern, fmt) ==
    IF \E i \in DOMAIN reg : reg[i].pattern = pattern
    THEN [i \in DOMAIN reg |->
            IF reg[i].pattern = pattern THEN Entry(pattern, fmt) ELSE reg[i]]
    ELSE Append(reg, Entry(pattern, fmt))

(* main, lines 212-213: the dict comprehension over options.topics_list *)
RECURSIVE FlagDict(_, _)
FlagDict(reg, flags) ==
    IF Len(flags) = 0 THEN reg
    ELSE FlagDict(SetItem(reg, Head(flags).pattern, FlagFmt(Head(flags).args)),
                  Tail(flags))

(* main, line 212: options.topics |= other *)
RECURSIVE Update(_, _)
Update(reg, other) ==
    IF Len(other) = 0 THEN reg
    ELSE Update(SetItem(reg, Head(other).pattern, Head(other).fmt), Tail(other))

(* main, lines 211-213: options.topics *)
BuildTopics(file, flags) == Update(file, FlagDict(<<>>, flags))

Source(file, flags) == [conf |-> file, flags |-> flags]

SrcFlags ==
    Source(<< Entry(<<"sensors", "+">>, ("title" :> <<Lit("Temp: "), Var("topic")>>)),
              Entry(<<"alerts", "#">>, ("urgency" :> "critical") @@ ("muted" :> FALSE)) >>,
           << Flag(<<"sensors", "temp">>, << <<Lit("first")>> >>),
              Flag(<<"sensors", "+">>, << <<Lit("flag: "), Var("body")>>, <<Var("title"), Lit("!")>> >>),
              Flag(<<"misc">>, <<>>),
              Flag(<<"sensors", "temp">>, << <<Lit("second")>> >>) >>)

Sources == {Source(reg, <<>>) : reg \in Registries} \cup {SrcFlags}

Msg(topic, payload) == [topic |-> topic, payload |-> payload]

Messages ==
    { Msg(<<"sensors", "temp">>, PayloadMessage),
      Msg(<<"alerts", "critical">>, PayloadText),
      Msg(<<"misc">>, PayloadTitle),
      Msg(<<"sensors", "temp">>, PayloadBoth),
      Msg(<<"$SYS", "load">>, PayloadNumber) }

(* The D-Bus errors of the model: the message of the first holds           *)
(* "ServiceUnknown", the message of the second does not.                   *)
DBusErrors == {"ServiceUnknown", "NoReply"}

----------------------------------------------------------------------------
(* notify, line 87: "ServiceUnknown" in str(e) *)
RetryAlways(e) == TRUE

IsServiceUnknown(e) == e = "ServiceUnknown"

(* notify, line 90: the next value of self.back_off *)
GrowNoFloor(b) ==
    RatMin(RatTimes(b, BACK_OFF_PROGRESSION), Rat(BACK_OFF_CUTOFF, 1))

GrowNoCap(b) ==
    IF b.n = 0 THEN Rat(1, 1) ELSE RatTimes(b, BACK_OFF_PROGRESSION)

Grow(b) ==
    IF b.n = 0 THEN Rat(1, 1)
    ELSE RatMin(RatTimes(b, BACK_OFF_PROGRESSION), Rat(BACK_OFF_CUTOFF, 1))

(* notify, line 97: self.back_off after the retry loop *)
KeepBackOff == back_off

ResetBackOff == BACK_OFF

(* notify, lines 100-101: self.back_off after the handler of an escaped    *)
(* D-Bus error, which only logs.                                           *)
DropResets == BACK_OFF

DropBackOff == back_off

(* notify, line 65: if self.test *)
NeverTest == FALSE

TestMode == test

(* loop_forever, line 114: the one thread calls on_message only between    *)
(* two callbacks, never while one is running.                              *)
LoopAnywhere == pc \in {"loop", "notify", "connect_dbus"}

LoopIdle == pc = "loop"

(* on_message, lines 150-177: the locals of the call for message i *)
Handle(i) ==
    LET m == arrived[i]
        topic == Join(m.topic)
        parsed == Parse(topic, m.payload)
        r == find_format(topics, m.topic)
        fmt == IF r.found THEN r.fmt ELSE EmptyFmt
        merged == Merge(DEFAULT_FORMAT, fmt)
        variables == [title |-> parsed.title, topic |-> topic, body |-> parsed.body]
        badTitle == Raises(merged["title"])
        badBody == Raises(merged["body"])
    IN [id |-> i, topic |-> topic, title |-> parsed.title, body |-> parsed.body,
        found |-> r.found, fmt |-> fmt, merged |-> merged,
        raises |-> badTitle \/ badBody,
        rtitle |-> IF badTitle THEN "" ELSE Render(merged["title"], variables),
        rbody |-> IF badTitle \/ badBody THEN "" ELSE Render(merged["body"], variables)]

NoMsg ==
    [id |-> 0, topic |-> "", title |-> "", body |-> "", found |-> FALSE,
     fmt |-> EmptyFmt, merged |-> DEFAULT_FORMAT, raises |-> FALSE,
     rtitle |-> "", rbody |-> ""]

NoCall ==
    [id |-> 0, icon |-> "", title |-> "", body |-> "", hints |-> EmptyFmt,
     timeout |-> 0, result |-> "none"]

(* notify, lines 74-83: the Notify call for the message in hand *)
CallRetitled(result) ==
    [id |-> last.id, icon |-> "",
     title |-> IF attempts = 0 THEN last.rtitle ELSE last.title,
     body |-> last.rbody, hints |-> EmptyFmt,
     timeout |-> NOTIFICATION_DURATION * 1000, result |-> result]

Call(result) ==
    [id |-> last.id, icon |-> "", title |-> last.rtitle, body |-> last.rbody,
     hints |-> EmptyFmt, timeout |-> NOTIFICATION_DURATION * 1000,
     result |-> result]

(* The messages still queued in the old client are gone with its connection *)
Lose(st) == [i \in DOMAIN st |-> IF st[i] = "queued" THEN "lost" ELSE st[i]]

(* main, lines 243-251: after a session ended with an exception *)
AlwaysRestart == "main"

AfterSession == IF daemon THEN "main" ELSE "exit"

----------------------------------------------------------------------------
(* The state when main enters its while loop (line 237).                   *)
Start0 ==
    /\ pc = "main"
    /\ session = 0
    /\ client = "none"
    /\ back_off = BACK_OFF
    /\ bus = 0
    /\ arrived = <<>>
    /\ head = 1
    /\ status = <<>>
    /\ last = NoMsg
    /\ attempts = 0
    /\ sent = NoCall
    /\ exc = "none"
    /\ lastLog = "none"
    /\ slept = BACK_OFF
    /\ fails = 0

Init ==
    /\ test \in BOOLEAN
    /\ daemon \in BOOLEAN
    /\ \E src \in Sources :
          /\ conf = src.conf
          /\ topics_list = src.flags
          /\ topics = BuildTopics(src.conf, src.flags)
    /\ budget = MaxFails
    /\ Start0

(* A long outage: one configuration, many service-unavailable answers.     *)
InitLong ==
    /\ test \in BOOLEAN
    /\ daemon = FALSE
    /\ conf = RegBad
    /\ topics_list = <<>>
    /\ topics = BuildTopics(RegBad, <<>>)
    /\ budget = MaxFailsLong
    /\ Start0

config == <<test, daemon, topics, conf, topics_list>>

----------------------------------------------------------------------------
(* main, line 239: Notifier(options); __init__ sets back_off and connects  *)
(* to D-Bus.                                                               *)
BootOk ==
    /\ pc = "main"
    /\ session < MaxSessions
    /\ session' = session + 1
    /\ client' = "none"
    /\ back_off' = BACK_OFF
    /\ bus' = 1
    /\ fails' = 0
    /\ pc' = "start"
    /\ UNCHANGED <<config, arrived, head, status, last, attempts, sent, exc,
                   lastLog, slept, budget>>

(* main, lines 239-251: connect_dbus raises inside __init__; the exception *)
(* is logged and the loop goes on only in daemon mode.                     *)
BootFail(e) ==
    /\ pc = "main"
    /\ session < MaxSessions
    /\ session' = session + 1
    /\ exc' = e
    /\ lastLog' = "exception"
    /\ pc' = AfterSession
    /\ UNCHANGED <<config, client, back_off, bus, arrived, head, status, last,
                   attempts, sent, slept, fails, budget>>

(* start, lines 107-114: the client connects and enters loop_forever *)
StartOk ==
    /\ pc = "start"
    /\ client' = "connected"
    /\ pc' = "loop"
    /\ UNCHANGED <<config, session, back_off, bus, arrived, head, status, last,
                   attempts, sent, exc, lastLog, slept, fails, budget>>

(* start, line 112, and main, lines 243-251: connect raises; main logs the *)
(* exception and calls stop.                                               *)
StartFail ==
    /\ pc = "start"
    /\ client' = "stopped"
    /\ lastLog' = "exception"
    /\ pc' = AfterSession
    /\ UNCHANGED <<config, session, back_off, bus, arrived, head, status, last,
                   attempts, sent, exc, slept, fails, budget>>

(* The broker sends a message to the connected client; it waits in the     *)
(* transport until the loop reads it.                                      *)
Arrive(m) ==
    /\ client = "connected"
    /\ Len(arrived) < MaxMessages
    /\ arrived' = Append(arrived, m)
    /\ status' = Append(status, "queued")
    /\ UNCHANGED <<config, pc, session, client, back_off, bus, head, last,
                   attempts, sent, exc, lastLog, slept, fails, budget>>

(* on_message, lines 176-177: a template raises; the exception leaves      *)
(* loop_forever, start calls stop and re-raises (lines 118-120), main logs *)
(* it and ends the session (lines 243-251).                                *)
OnMessageRaise ==
    /\ LoopIdle
    /\ head <= Len(arrived)
    /\ Handle(head).raises
    /\ last' = Handle(head)
    /\ attempts' = 0
    /\ status' = Lose([status EXCEPT ![head] = "failed"])
    /\ head' = Len(arrived) + 1
    /\ client' = "stopped"
    /\ lastLog' = "exception"
    /\ pc' = AfterSession
    /\ UNCHANGED <<config, session, back_off, bus, arrived, sent, exc, slept,
                   fails, budget>>

(* on_message, line 179, and notify, lines 65-67: in test mode notify only *)
(* logs and returns.                                                       *)
OnMessageTest ==
    /\ LoopIdle
    /\ head <= Len(arrived)
    /\ ~Handle(head).raises
    /\ TestMode
    /\ last' = Handle(head)
    /\ attempts' = 0
    /\ status' = [status EXCEPT ![head] = "logged"]
    /\ head' = head + 1
    /\ lastLog' = IF Handle(head).found THEN lastLog ELSE "warning: format not found"
    /\ UNCHANGED <<config, pc, session, client, back_off, bus, arrived, sent,
                   exc, slept, fails, budget>>

(* on_message, line 179, and notify, lines 69-72: notify enters its retry  *)
(* loop with the rendered title and body.                                  *)
OnMessageNotify ==
    /\ LoopIdle
    /\ head <= Len(arrived)
    /\ ~Handle(head).raises
    /\ ~TestMode
    /\ last' = Handle(head)
    /\ attempts' = 0
    /\ status' = [status EXCEPT ![head] = "processing"]
    /\ head' = head + 1
    /\ lastLog' = IF Handle(head).found THEN lastLog ELSE "warning: format not found"
    /\ pc' = "notify"
    /\ UNCHANGED <<config, session, client, back_off, bus, arrived, sent, exc,
                   slept, fails, budget>>

(* notify, lines 74-83 and 94-98: Notify returns; the loop ends and        *)
(* back_off is reset.                                                      *)
NotifyOk ==
    /\ pc = "notify"
    /\ attempts' = attempts + 1
    /\ sent' = Call("ok")
    /\ back_off' = ResetBackOff
    /\ fails' = 0
    /\ status' = [status EXCEPT ![last.id] = "delivered"]
    /\ pc' = "loop"
    /\ UNCHANGED <<config, session, client, bus, arrived, head, last, exc,
                   lastLog, slept, budget>>

(* notify, lines 86-90: Notify raises a service-unknown error; notify      *)
(* sleeps back_off seconds and grows back_off.                             *)
NotifyUnavailable(e) ==
    /\ pc = "notify"
    /\ budget > 0
    /\ IsServiceUnknown(e)
    /\ attempts' = attempts + 1
    /\ sent' = Call(e)
    /\ exc' = e
    /\ lastLog' = "warning: reconnect"
    /\ slept' = back_off
    /\ fails' = fails + 1
    /\ back_off' = Grow(back_off)
    /\ budget' = budget - 1
    /\ pc' = "connect_dbus"
    /\ UNCHANGED <<config, session, client, bus, arrived, head, status, last>>

(* notify, lines 92-93 and 100-101: any other D-Bus error is re-raised,    *)
(* logged by the outer handler, and notify returns.                        *)
NotifyError(e) ==
    /\ pc = "notify"
    /\ ~IsServiceUnknown(e)
    /\ attempts' = attempts + 1
    /\ sent' = Call(e)
    /\ exc' = e
    /\ lastLog' = "error: failed to send"
    /\ status' = [status EXCEPT ![last.id] = "dropped"]
    /\ back_off' = DropBackOff
    /\ pc' = "loop"
    /\ UNCHANGED <<config, session, client, bus, arrived, head, last,
                   slept, fails, budget>>

(* notify, line 91: connect_dbus returns; the loop calls Notify again *)
ConnectDbusOk ==
    /\ pc = "connect_dbus"
    /\ bus' = bus + 1
    /\ pc' = "notify"
    /\ UNCHANGED <<config, session, client, back_off, arrived, head, status,
                   last, attempts, sent, exc, lastLog, slept, fails, budget>>

(* notify, lines 91 and 100-101: connect_dbus raises inside the except     *)
(* clause; the exception leaves the while loop, the outer handler logs it  *)
(* and notify returns.                                                     *)
ConnectDbusFail(e) ==
    /\ pc = "connect_dbus"
    /\ exc' = e
    /\ lastLog' = "error: failed to send"
    /\ status' = [status EXCEPT ![last.id] = "dropped"]
    /\ back_off' = DropBackOff
    /\ pc' = "loop"
    /\ UNCHANGED <<config, session, client, bus, arrived, head, last,
                   attempts, sent, slept, fails, budget>>

Next ==
    \/ BootOk
    \/ \E e \in DBusErrors : BootFail(e)
    \/ StartOk
    \/ StartFail
    \/ \E m \in Messages : Arrive(m)
    \/ OnMessageRaise
    \/ OnMessageTest
    \/ OnMessageNotify
    \/ NotifyOk
    \/ \E e \in DBusErrors : NotifyUnavailable(e)
    \/ \E e \in DBusErrors : NotifyError(e)
    \/ ConnectDbusOk
    \/ \E e \in DBusErrors : ConnectDbusFail(e)

(* Every step but the broker's is a step of the one running thread.        *)
Step ==
    \/ BootOk
    \/ \E e \in DBusErrors : BootFail(e)
    \/ StartOk
    \/ StartFail
    \/ OnMessageRaise
    \/ OnMessageTest
    \/ OnMessageNotify
    \/ NotifyOk
    \/ \E e \in DBusErrors : NotifyUnavailable(e)
    \/ \E e \in DBusErrors : NotifyError(e)
    \/ ConnectDbusOk
    \/ \E e \in DBusErrors : ConnectDbusFail(e)

Spec == Init /\ [][Next]_vars

SpecLong == InitLong /\ [][Next]_vars

FairSpec == Init /\ [][Next]_vars /\ WF_vars(Step)

----------------------------------------------------------------------------
(* Properties.                                                             *)

Ids == DOMAIN status

Muted(fmt) == "muted" \in DOMAIN fmt /\ fmt["muted"] = TRUE

(* C1: a message whose merged format has muted = true causes no Notify     *)
(* call, whatever its title and body are.                                  *)
C1_MutedNeverNotified ==
    (last.id # 0 /\ Muted(last.merged)) => attempts = 0

(* C2: when on_message raises for one message, only that message is        *)
(* dropped: the same loop of the same session keeps processing.            *)
C2_FailureIsolated ==
    [][(\E i \in Ids : status[i] # "failed" /\ status'[i] = "failed")
         => (pc' = "loop" /\ session' = session /\ client' = "connected")]_vars

(* C3: when the reconnect made after a service-unavailable failure fails   *)
(* with the same error class, notify stays in its retry loop and keeps the *)
(* notification.                                                           *)
C3_ReconnectFailureRetries ==
    [][(pc = "connect_dbus" /\ bus' = bus /\ exc' = "ServiceUnknown")
         => (pc' \in {"notify", "connect_dbus"} /\ status'[last.id] = "processing")]_vars

(* C4: when the service fails with service-unavailable errors only and is  *)
(* available from some point on, every notification handed to notify is    *)
(* eventually delivered by a successful Notify call.                       *)
StatusOf(i) == IF i \in Ids THEN status[i] ELSE "none"

C4_EventuallyDelivered ==
    \A i \in 1..MaxMessages :
        [](StatusOf(i) = "processing"
             => <>(StatusOf(i) = "delivered" \/ exc = "NoReply"))

(* C5: from a fresh Notifier the sleep before the k-th consecutive         *)
(* reconnect is 0 for k = 1 and min(1.5^(k-2), 300) for k > 1.             *)
SleepAt(k) ==
    IF k = 1 THEN Rat(0, 1)
    ELSE IF 3^(k - 2) <= 300 * 2^(k - 2) THEN Rat(3^(k - 2), 2^(k - 2))
    ELSE Rat(300, 1)

C5_BackoffSequence == fails >= 1 => slept = SleepAt(fails)

C5_Witness == fails > 2 /\ slept = Rat(BACK_OFF_CUTOFF, 1) /\ back_off = slept

(* C6: right after a successful Notify call back_off is 0, whatever the    *)
(* number of failures before it, and the first sleep after it is 0.        *)
C6_ResetOnSuccess ==
    [][/\ (\E i \in Ids : status[i] = "processing" /\ status'[i] = "delivered")
            => back_off' = Rat(0, 1)
       /\ (fails = 0 /\ fails' = 1) => slept' = Rat(0, 1)]_vars

C6_Witness ==
    /\ last.id # 0
    /\ status[last.id] = "delivered"
    /\ attempts = 4
    /\ sent.result = "ok"
    /\ back_off = Rat(0, 1)

C8_TestModeNoop ==
    test => /\ sent = NoCall
            /\ attempts = 0
            /\ back_off = BACK_OFF
            /\ bus <= 1
            /\ fails = 0
            /\ pc \notin {"notify", "connect_dbus"}
            /\ \A i \in Ids : status[i] \notin {"processing", "delivered", "dropped"}

C8_Witness == test /\ status = <<"logged", "logged">> /\ bus = 1

(* C9: find_format returns the entry of the first pattern, in declaration  *)
(* order, that matches the topic under the broker's wildcard rules; with   *)
(* no match the message is processed with the default format.              *)
Matches(sub, topic) ==
    LET n == Len(sub)
        Levels(k) == \A i \in 1..k : sub[i] = "+" \/ sub[i] = topic[i]
    IN /\ n > 0
       /\ Len(topic) > 0
       /\ ~(sub[1] \in {"+", "#"} /\ topic[1] = "$SYS")
       /\ IF sub[n] = "#"
          THEN Len(topic) >= n - 1 /\ Levels(n - 1)
          ELSE Len(topic) = n /\ Levels(n)

Matching(topic) == {i \in 1..Len(topics) : Matches(topics[i].pattern, topic)}

First(S) == CHOOSE i \in S : \A j \in S : i <= j

C9_FirstMatchWins ==
    last.id # 0 =>
        LET M == Matching(arrived[last.id].topic) IN
        IF M = {}
        THEN /\ ~last.found
             /\ last.fmt = EmptyFmt
             /\ last.merged = DEFAULT_FORMAT
             /\ status[last.id] \in {"processing", "delivered", "dropped", "logged"}
        ELSE /\ last.found
             /\ last.fmt = topics[First(M)].fmt

C9_Witness ==
    /\ last.id # 0
    /\ \E i, j \in Matching(arrived[last.id].topic) :
          /\ i < j
          /\ topics[j].pattern = arrived[last.id].topic
          /\ topics[i].fmt # topics[j].fmt
          /\ last.fmt = topics[i].fmt

(* C10: messages are processed one at a time in arrival order; no Notify   *)
(* call for a message is made before every earlier message was delivered   *)
(* or dropped.                                                             *)
Open == {"queued", "processing"}

C10_SerialInOrder ==
    /\ Cardinality({i \in Ids : status[i] = "processing"}) <= 1
    /\ \A i, j \in Ids :
          (i < j /\ status[j] \notin {"queued", "lost"}) => status[i] \notin Open
    /\ pc \in {"notify", "connect_dbus"} =>
          (status[last.id] = "processing" /\ head = last.id + 1)
    /\ (sent.id # 0 /\ pc \in {"notify", "connect_dbus"}) => sent.id <= last.id

C10_Witness ==
    /\ pc = "connect_dbus"
    /\ status = <<"processing", "queued">>
    /\ attempts = 2

(* C11: a session that ends with an uncaught exception is torn down; in    *)
(* daemon mode main at once starts a new session with a fresh Notifier, in *)
(* one-shot mode the program ends and starts no other session.             *)
C11_RestartPolicy ==
    [][/\ (pc \in {"start", "loop"} /\ pc' \in {"main", "exit"})
            => /\ client' = "stopped"
               /\ lastLog' = "exception"
               /\ slept' = slept
               /\ pc' = (IF daemon THEN "main" ELSE "exit")
       /\ (pc = "main" /\ pc' = "start")
            => /\ session' = session + 1
               /\ back_off' = Rat(0, 1)
               /\ bus' = 1
               /\ client' = "none"
               /\ fails' = 0
       /\ pc = "exit" => pc' = "exit"
       /\ ~daemon => session' <= 1]_vars

C11_Witness ==
    /\ daemon
    /\ session = 2
    /\ pc = "loop"
    /\ client = "connected"
    /\ StatusOf(1) = "failed"

(* C12: the merged format has, for every key, the entry's value when the   *)
(* entry sets the key and the default's value otherwise, and merging the   *)
(* default with it again changes nothing.                                  *)
C12_MergeFieldwise ==
    last.id # 0 =>
        /\ DOMAIN last.merged = DOMAIN last.fmt \cup DOMAIN DEFAULT_FORMAT
        /\ \A key \in DOMAIN last.merged :
              last.merged[key] = IF key \in DOMAIN last.fmt THEN last.fmt[key]
                                 ELSE DEFAULT_FORMAT[key]
        /\ Merge(DEFAULT_FORMAT, last.merged) = last.merged

C12_Witness ==
    /\ last.id # 0
    /\ DOMAIN last.fmt = {"title"}
    /\ last.merged["title"] = last.fmt["title"]
    /\ last.merged["title"] # DEFAULT_FORMAT["title"]
    /\ last.merged["body"] = DEFAULT_FORMAT["body"]

(* C13: a payload that is a JSON object gives its title field, or else the *)
(* topic, as title and its message field, or else the string form of the   *)
(* object, as body; any other payload gives the topic and the raw text;    *)
(* parsing never raises.                                                   *)
C13_PayloadParsing ==
    last.id # 0 =>
        LET p == arrived[last.id].payload
            t == last.topic
        IN /\ p = PayloadMessage => (last.title = t /\ last.body = "21C")
           /\ p = PayloadTitle => (last.title = "Door" /\ last.body = "{'title': 'Door'}")
           /\ p = PayloadBoth => (last.title = "Door" /\ last.body = "open")
           /\ p = PayloadNumber => (last.title = t /\ last.body = "42")
           /\ p = PayloadText => (last.title = t /\ last.body = "not json")
           /\ status[last.id] = "failed" =>
                 (Raises(last.merged["title"]) \/ Raises(last.merged["body"]))

C13_Witness ==
    /\ last.id # 0
    /\ arrived[last.id] = Msg(<<"misc">>, PayloadTitle)
    /\ last.title = "Door"
    /\ last.body = "{'title': 'Door'}"
    /\ last.topic = "misc"

(* C14: the registry lists the entries of the configuration file first, in *)
(* declaration order, and then the entries of the --topic flags in the     *)
(* order given, also when a flag names a pattern the file declares.        *)
FlagEntries ==
    [i \in DOMAIN topics_list |->
        Entry(topics_list[i].pattern, FlagFmt(topics_list[i].args))]

MatchingIn(reg, topic) == {i \in DOMAIN reg : Matches(reg[i].pattern, topic)}

C14_ConfigThenFlags ==
    last.id # 0 =>
        LET listed == conf \o FlagEntries
            M == MatchingIn(listed, arrived[last.id].topic)
        IN /\ topics = listed
           /\ M # {} => last.fmt = listed[First(M)].fmt

(* C14 as the code has it: the file's patterns come first, in declaration  *)
(* order, then the flags' patterns the file does not declare, in the order *)
(* of their first flag; a pattern named by a flag has the format of the    *)
(* last flag naming it and keeps its place; resolution follows that order. *)
Patterns(seq) == {seq[i].pattern : i \in DOMAIN seq}

FlagsOf(pattern) == {i \in DOMAIN topics_list : topics_list[i].pattern = pattern}

Latest(S) == CHOOSE i \in S : \A j \in S : j <= i

C14_RegistryOrder ==
    /\ Patterns(topics) = Patterns(conf) \cup Patterns(topics_list)
    /\ Len(topics) = Cardinality(Patterns(topics))
    /\ \A i \in DOMAIN conf : topics[i].pattern = conf[i].pattern
    /\ \A i, j \in DOMAIN topics :
          (Len(conf) < i /\ i < j) =>
              First(FlagsOf(topics[i].pattern)) < First(FlagsOf(topics[j].pattern))
    /\ \A i \in DOMAIN topics :
          topics[i].fmt =
              IF FlagsOf(topics[i].pattern) # {}
              THEN FlagFmt(topics_list[Latest(FlagsOf(topics[i].pattern))].args)
              ELSE conf[i].fmt
    /\ (last.id # 0 /\ Matching(arrived[last.id].topic) # {}) =>
          last.fmt = topics[First(Matching(arrived[last.id].topic))].fmt

C14_Witness ==
    /\ last.id # 0
    /\ last.found
    /\ \E k \in DOMAIN topics_list :
          /\ k > 1
          /\ topics_list[k].pattern = topics[1].pattern
          /\ topics[1].pattern \in Patterns(conf)
          /\ last.fmt = FlagFmt(topics_list[k].args)
          /\ topics[Len(topics)].pattern = topics_list[k + 1].pattern

(* C15: for a message whose merged format sets urgency, delivery is        *)
(* attempted with the rendered title and body and with that urgency passed *)
(* to the Notify call; alerts/critical with payload "not json" under       *)
(* alerts/# gives title alerts/critical and body "not json".               *)
C15_UrgencyPassed ==
    (sent.id # 0 /\ sent.id = last.id /\ "urgency" \in DOMAIN last.merged) =>
        /\ sent.title = last.rtitle
        /\ sent.body = last.rbody
        /\ arrived[last.id] = Msg(<<"alerts", "critical">>, PayloadText)
              => (sent.title = "alerts/critical" /\ sent.body = "not json")
        /\ "urgency" \in DOMAIN sent.hints
        /\ sent.hints["urgency"] = last.merged["urgency"]

(* C16: the title and body handed to notify are the merged format's title  *)
(* and body templates expanded with title, topic and body of the parsed    *)
(* message; sensors/temp under sensors/+ with title "Temp: {{topic}}" and  *)
(* payload {"message":"21C"} gives "Temp: sensors/temp" and "21C".         *)
Rendered(title, body) == last.rtitle = title /\ last.rbody = body

C16_EndToEndRendering ==
    last.id # 0 =>
        LET m == arrived[last.id] IN
        /\ (topics = RegFirst /\ m = Msg(<<"sensors", "temp">>, PayloadMessage))
              => Rendered("Temp: sensors/temp", "21C")
        /\ (topics = RegFirst /\ m = Msg(<<"sensors", "temp">>, PayloadBoth))
              => Rendered("Temp: sensors/temp", "open")
        /\ (topics = RegFirst /\ m = Msg(<<"alerts", "critical">>, PayloadText))
              => Rendered("alerts/critical", "not json")
        /\ (topics = RegFirst /\ m = Msg(<<"misc">>, PayloadTitle))
              => Rendered("Door", "{'title': 'Door'}")
        /\ (topics = RegMuted /\ m = Msg(<<"alerts", "critical">>, PayloadText))
              => Rendered("Alert", "not json")
        /\ (topics = RegBad /\ m = Msg(<<"sensors", "temp">>, PayloadMessage))
              => Rendered("sensors/temp", "21C []")
        /\ (topics_list # <<>> /\ m = Msg(<<"sensors", "temp">>, PayloadBoth))
              => Rendered("Door!", "flag: open")
        /\ sent.id = last.id => (sent.title = last.rtitle /\ sent.body = last.rbody)

C16_Witness ==
    /\ last.id # 0
    /\ topics = RegFirst
    /\ arrived[last.id] = Msg(<<"sensors", "temp">>, PayloadMessage)
    /\ sent.id = last.id
    /\ sent.title = "Temp: sensors/temp"
    /\ sent.body = "21C"
    /\ sent.result = "ok"

(* C17: when the reconnect after a service-unavailable failure succeeds,   *)
(* back_off is reset to 0, so it is 0 at the retried Notify call.          *)
C17_ResetAtReconnect ==
    (pc = "notify" /\ attempts >= 1) => back_off = Rat(0, 1)

(* C17 as the code has it: a successful reconnect leaves back_off at its   *)
(* grown value, at least 1, for the retried Notify call; back_off returns  *)
(* to 0 only when a Notify call succeeds or a new Notifier is made.        *)
C17_NoResetAtReconnect ==
    [][/\ (pc = "connect_dbus" /\ pc' = "notify")
            => (back_off' = back_off /\ RatLeq(Rat(1, 1), back_off'))
       /\ (back_off # Rat(0, 1) /\ back_off' = Rat(0, 1))
            => \/ \E i \in Ids : status[i] = "processing" /\ status'[i] = "delivered"
               \/ (pc = "main" /\ pc' = "start")]_vars

C17_Witness ==
    /\ pc = "notify"
    /\ attempts = 2
    /\ bus = 3
    /\ back_off = Rat(3, 2)

(* C18: back_off is always 0 or between 1 and 300, and it never decreases  *)
(* inside one retry loop.                                                  *)
InRange(b) ==
    \/ b = Rat(0, 1)
    \/ (RatLeq(Rat(1, 1), b) /\ RatLeq(b, Rat(300, 1)))

Retrying(p) == p \in {"notify", "connect_dbus"}

(* a <= b for denominators that divide one another, as powers of two do *)
NotAbove(a, b) ==
    IF a.d <= b.d THEN a.n * (b.d \div a.d) <= b.n
    ELSE a.n <= b.n * (a.d \div b.d)

C18_BackoffBounds ==
    [][/\ InRange(back_off)
       /\ InRange(back_off')
       /\ (Retrying(pc) /\ Retrying(pc')) => NotAbove(back_off, back_off')]_vars

C18_Witness ==
    /\ pc = "notify"
    /\ attempts > 2
    /\ back_off = Rat(BACK_OFF_CUTOFF, 1)
    /\ slept # back_off

(* C19: at most one Notify call succeeds for a message, no Notify call     *)
(* follows the successful one, and every retry sends the title and body of *)
(* the first attempt.                                                      *)
C19_AtMostOnce ==
    [][/\ (attempts >= 1 /\ attempts' = attempts + 1)
            => /\ sent.result # "ok"
               /\ sent'.id = sent.id
               /\ sent'.title = sent.title
               /\ sent'.body = sent.body
       /\ (attempts' = attempts + 1 /\ sent'.result = "ok") => pc' = "loop"
       /\ (last.id # 0 /\ status[last.id] = "delivered" /\ last'.id = last.id)
            => (attempts' = attempts /\ sent' = sent)]_vars

C19_Witness ==
    /\ last.id # 0
    /\ status[last.id] = "delivered"
    /\ attempts = 3
    /\ sent.result = "ok"
    /\ sent.title = last.rtitle
    /\ last.rtitle # last.title

(* C20: when notify drops a notification because a D-Bus error leaves the  *)
(* retry loop, back_off keeps its value, and the first service-unavailable *)
(* failure of a later message sleeps that value.                           *)
C20_DropKeepsBackoff ==
    [][/\ (\E i \in Ids : status[i] = "processing" /\ status'[i] = "dropped")
            => back_off' = back_off
       /\ (pc = "notify" /\ pc' = "connect_dbus") => slept' = back_off]_vars

C20_Witness ==
    /\ StatusOf(1) = "dropped"
    /\ last.id = 2
    /\ attempts = 1
    /\ pc = "connect_dbus"
    /\ slept = Rat(1, 1)
    /\ back_off = Rat(3, 2)

====
